---- MODULE Spec2Model ----
(***************************************************************************)
(* Model of detector_full_candidate_name.py: the PII classification and    *)
(* redaction engine (contains_individual_pii, count_combinatorial_elements,*)
(* apply_redaction_rules and the obfuscate_* masking functions) and the    *)
(* row loop of execute_processing that drives it.                          *)
(*                                                                         *)
(* Text is a TLA+ string; the character at position i is SubSeq(s, i, i).  *)
(* A Python value is a record [t, s, n]: text (t = "str", s the text), an  *)
(* integer (t = "int", n the number) or None (t = "none").  A dict is a    *)
(* sequence of fields [k |-> key, v |-> value] in insertion order.         *)
(***************************************************************************)
EXTENDS Integers, Sequences, FiniteSets, TLC

VARIABLES rows, idx, output, status, engine

vars == <<rows, idx, output, status, engine>>

(***************************************************************************)
(* Bounds of the model.                                                    *)
(***************************************************************************)
\* largest number of fields of a record handed to the engine
MaxFields == 3
\* largest number of rows of a multi-row input file
MaxRows == 2

(***************************************************************************)
(* Characters and text primitives (Python str, re).                        *)
(***************************************************************************)
Ch(s, i) == SubSeq(s, i, i)

Digit == {"0", "1", "2", "3", "4", "5", "6", "7", "8", "9"}

UpperAlphabet == "ABCDEFGHIJKLMNOPQRSTUVWXYZ"

LowerAlphabet == "abcdefghijklmnopqrstuvwxyz"

Upper == {Ch(UpperAlphabet, i) : i \in 1..26}

Alpha == Upper \cup {Ch(LowerAlphabet, i) : i \in 1..26}

\* \w of the re module, for the ASCII text of the model
WordChar == Alpha \cup Digit \cup {"_"}

\* the characters str.split() and str.strip() treat as whitespace
Whitespace == {" ", "\t", "\n", "\r"}

Min(S) == CHOOSE x \in S : \A y \in S : x <= y

Max(S) == CHOOSE x \in S : \A y \in S : x >= y

AllIn(s, i, j, C) == \A p \in i..j : Ch(s, p) \in C

RECURSIVE Repeat(_, _)
\* c * n
Repeat(c, n) == IF n <= 0 THEN "" ELSE c \o Repeat(c, n - 1)

\* s[:n]
Prefix(s, n) == SubSeq(s, 1, IF n < Len(s) THEN n ELSE Len(s))

\* s[-n:]
Suffix(s, n) == SubSeq(s, IF Len(s) - n + 1 < 1 THEN 1 ELSE Len(s) - n + 1, Len(s))

\* str.lower() of one character
LowerChar(c) ==
    IF c \in Upper
    THEN Ch(LowerAlphabet, CHOOSE i \in 1..26 : Ch(UpperAlphabet, i) = c)
    ELSE c

RECURSIVE LowerFrom(_, _)
LowerFrom(s, i) == IF i > Len(s) THEN "" ELSE LowerChar(Ch(s, i)) \o LowerFrom(s, i + 1)

\* str.lower()
Lower(s) == LowerFrom(s, 1)

RECURSIVE Replace(_, _, _)
\* str.replace(old, new): every non-overlapping occurrence, left to right
Replace(s, old, new) ==
    IF Len(s) < Len(old) \/ Len(old) = 0 THEN s
    ELSE IF SubSeq(s, 1, Len(old)) = old
         THEN new \o Replace(SubSeq(s, Len(old) + 1, Len(s)), old, new)
         ELSE Ch(s, 1) \o Replace(SubSeq(s, 2, Len(s)), old, new)

\* positions of character c in s
Positions(s, c) == {p \in 1..Len(s) : Ch(s, p) = c}

\* \b between position p and p + 1 (p = 0: before the text)
Boundary(s, p) ==
    LET before == p >= 1 /\ Ch(s, p) \in WordChar
        after  == p < Len(s) /\ Ch(s, p + 1) \in WordChar
    IN  before # after

\* \d{n} matches at position i
DigitRunAt(s, i, n) == i >= 1 /\ i + n - 1 <= Len(s) /\ AllIn(s, i, i + n - 1, Digit)

\* re.search(r"\d{n}", s): start of the leftmost match, 0 when there is none
SearchDigits(s, n) ==
    LET I == {i \in 1..Len(s) : DigitRunAt(s, i, n)}
    IN  IF I = {} THEN 0 ELSE Min(I)

\* re.search(r"\b\d{n}\b", s): start of the leftmost match, 0 when there is none
SearchBoundedDigits(s, n) ==
    LET I == {i \in 1..Len(s) :
                 DigitRunAt(s, i, n) /\ Boundary(s, i - 1) /\ Boundary(s, i + n - 1)}
    IN  IF I = {} THEN 0 ELSE Min(I)

\* str.strip()
Strip(s) ==
    LET I == {p \in 1..Len(s) : Ch(s, p) \notin Whitespace}
    IN  IF I = {} THEN "" ELSE SubSeq(s, Min(I), Max(I))

RECURSIVE SplitFrom(_, _)
\* str.split(): the whitespace-delimited tokens from position i on
SplitFrom(s, i) ==
    IF i > Len(s) THEN <<>>
    ELSE IF Ch(s, i) \in Whitespace THEN SplitFrom(s, i + 1)
    ELSE LET E == {e \in i..Len(s) : e = Len(s) \/ Ch(s, e + 1) \in Whitespace}
             e == Min(E)
         IN  <<SubSeq(s, i, e)>> \o SplitFrom(s, e + 1)

Split(s) == SplitFrom(s, 1)

RECURSIVE Join(_, _)
\* sep.join(tokens)
Join(tokens, sep) ==
    IF Len(tokens) = 0 THEN ""
    ELSE IF Len(tokens) = 1 THEN tokens[1]
    ELSE tokens[1] \o sep \o Join(Tail(tokens), sep)

RECURSIVE DigitsOf(_)
DigitsOf(n) ==
    IF n < 10 THEN Ch("0123456789", n + 1)
    ELSE DigitsOf(n \div 10) \o Ch("0123456789", (n % 10) + 1)

(***************************************************************************)
(* Python values: str(), truthiness.                                       *)
(***************************************************************************)
PyStr(s) == [t |-> "str", s |-> s, n |-> 0]

PyInt(n) == [t |-> "int", s |-> "", n |-> n]

PyNone == [t |-> "none", s |-> "", n |-> 0]

\* str(value)
ToStr(v) ==
    CASE v.t = "str"  -> v.s
      [] v.t = "int"  -> IF v.n < 0 THEN "-" \o DigitsOf(0 - v.n) ELSE DigitsOf(v.n)
      [] v.t = "none" -> "None"

\* bool(value)
Truthy(v) ==
    CASE v.t = "str"  -> Len(v.s) > 0
      [] v.t = "int"  -> v.n # 0
      [] v.t = "none" -> FALSE

(***************************************************************************)
(* dict access.                                                            *)
(***************************************************************************)
Keys(rec) == {rec[i].k : i \in 1..Len(rec)}

\* key in record_data
Has(rec, key) == key \in Keys(rec)

\* record_data[key], for a key of the record
Get(rec, key) == rec[CHOOSE i \in 1..Len(rec) : rec[i].k = key].v

\* record_data[key] = value, for a key of the record: the position is kept
Put(rec, key, value) ==
    [i \in 1..Len(rec) |-> IF rec[i].k = key THEN [k |-> key, v |-> value] ELSE rec[i]]

(***************************************************************************)
(* Field identifiers (lines 9-19).                                         *)
(***************************************************************************)
PHONE_RELATED_FIELDS == {"phone", "contact", "alt_phone", "mobile"}

AADHAAR_RELATED_FIELDS == {"aadhar", "aadhaar"}

PASSPORT_RELATED_FIELDS == {"passport"}

UPI_RELATED_FIELDS == {"upi", "upi_id"}

EMAIL_RELATED_FIELDS == {"email", "alt_email", "username"}

FULL_NAME_FIELDS == {"name"}

GIVEN_NAME_FIELD == "first_name"

SURNAME_FIELD == "last_name"

LOCATION_FIELDS == {"address"}

NETWORK_IP_FIELDS == {"ip", "ip_address"}

HARDWARE_ID_FIELDS == {"device_id"}

(***************************************************************************)
(* Pattern library (lines 22-27): pattern.search(text) is not None.        *)
(***************************************************************************)
EmailLocalChar == Alpha \cup Digit \cup {".", "_", "%", "+", "-"}

EmailDomainChar == Alpha \cup Digit \cup {".", "-"}

UpiLocalChar == Alpha \cup Digit \cup {".", "_", "-"}

\* [A-Za-z0-9._%+-]+@[A-Za-z0-9.-]+\.[A-Za-z]{2,}
email_pattern(s) ==
    \E a \in Positions(s, "@") :
        /\ a >= 2 /\ Ch(s, a - 1) \in EmailLocalChar
        /\ \E d \in Positions(s, ".") :
              /\ d >= a + 2
              /\ AllIn(s, a + 1, d - 1, EmailDomainChar)
              /\ d + 2 <= Len(s)
              /\ AllIn(s, d + 1, d + 2, Alpha)

\* \b[a-zA-Z0-9._-]{2,}@[a-zA-Z]{2,}\b
upi_pattern(s) ==
    \E a \in Positions(s, "@") :
        /\ \E i \in 1..(a - 2) :
              AllIn(s, i, a - 1, UpiLocalChar) /\ Boundary(s, i - 1)
        /\ \E m \in (a + 2)..Len(s) :
              AllIn(s, a + 1, m, Alpha) /\ Boundary(s, m)

\* \b[A-Z][0-9]{7}\b: start of the leftmost match, 0 when there is none
passport_search(s) ==
    LET I == {i \in 1..Len(s) :
                 /\ Ch(s, i) \in Upper
                 /\ DigitRunAt(s, i + 1, 7)
                 /\ Boundary(s, i - 1)
                 /\ Boundary(s, i + 7)}
    IN  IF I = {} THEN 0 ELSE Min(I)

passport_pattern(s) == passport_search(s) # 0

\* \b\d{10}\b
decimal_ten_pattern(s) == SearchBoundedDigits(s, 10) # 0

\* \b\d{12}\b
decimal_twelve_pattern(s) == SearchBoundedDigits(s, 12) # 0

\* \b\d{6}\b: start of the leftmost match, 0 when there is none
postal_code_search(s) == SearchBoundedDigits(s, 6)

postal_code_pattern(s) == postal_code_search(s) # 0

(***************************************************************************)
(* Masking functions (lines 29-104).                                       *)
(***************************************************************************)
obfuscate_phone_number(value_str) ==
    LET i == SearchDigits(value_str, 10)
        matched_sequence == SubSeq(value_str, i, i + 9)
    IN  IF i = 0 THEN value_str
        ELSE Replace(value_str, matched_sequence,
                     Prefix(matched_sequence, 2) \o "XXXXXX" \o Suffix(matched_sequence, 2))

obfuscate_aadhaar_number(value_str) ==
    LET i == SearchDigits(value_str, 12)
        matched_sequence == SubSeq(value_str, i, i + 11)
    IN  IF i = 0 THEN value_str
        ELSE Replace(value_str, matched_sequence,
                     Prefix(matched_sequence, 4) \o "XXXX" \o Suffix(matched_sequence, 4))

obfuscate_passport_number(value_str) ==
    LET i == passport_search(value_str)
        matched_sequence == SubSeq(value_str, i, i + 7)
    IN  IF i = 0 THEN value_str
        ELSE Replace(value_str, matched_sequence, Ch(matched_sequence, 1) \o "XXXXXXX")

\* the local-part rule shared by the UPI and the email masks, after split("@", 1)
MaskAtFirstAt(value_str) ==
    LET a == Min(Positions(value_str, "@"))
        username_part == SubSeq(value_str, 1, a - 1)
        domain_part == SubSeq(value_str, a + 1, Len(value_str))
        masked_username == IF Len(username_part) <= 2 THEN "XX"
                           ELSE Prefix(username_part, 2) \o "XXX"
    IN  masked_username \o "@" \o domain_part

obfuscate_upi_identifier(value_str) ==
    IF Positions(value_str, "@") = {} THEN "[REDACTED_PII]"
    ELSE MaskAtFirstAt(value_str)

obfuscate_email_address(value_str) ==
    IF Positions(value_str, "@") = {} THEN value_str
    ELSE MaskAtFirstAt(value_str)

\* token[0] + "X" * (len(token) - 1)
MaskToken(token) == Ch(token, 1) \o Repeat("X", Len(token) - 1)

obfuscate_personal_name(value_str) ==
    LET word_tokens == Split(value_str)
    IN  Join([i \in 1..Len(word_tokens) |-> MaskToken(word_tokens[i])], " ")

\* obfuscate_physical_address without the postal code
obfuscate_physical_address_DropsPostal(value_str) ==
    (IF Len(value_str) >= 3 THEN Prefix(value_str, 3) \o "XXX" ELSE "XXX") \o "..."

obfuscate_physical_address(value_str) ==
    LET p == postal_code_search(value_str)
        address_prefix == IF Len(value_str) >= 3 THEN Prefix(value_str, 3) \o "XXX"
                          ELSE "XXX"
        postal_suffix == IF p # 0 THEN ", " \o SubSeq(value_str, p, p + 5) ELSE ""
    IN  address_prefix \o "..." \o postal_suffix

obfuscate_ip_address(value_str) ==
    LET dots == Positions(value_str, ".")
    IN  IF Cardinality(dots) # 3 THEN "[REDACTED_PII]"
        ELSE SubSeq(value_str, 1, Min(dots) - 1) \o ".XXX.XXX."
             \o SubSeq(value_str, Max(dots) + 1, Len(value_str))

obfuscate_device_identifier(value_str) ==
    IF Len(value_str) <= 6 THEN "XXXXXX"
    ELSE Prefix(value_str, 3) \o "XXX" \o Suffix(value_str, 3)

\* len(re.findall(r"[A-Za-z]+", value_str)) >= 2
appears_as_complete_name(value_str) ==
    Cardinality({i \in 1..Len(value_str) :
                    /\ Ch(value_str, i) \in Alpha
                    /\ (i = 1 \/ Ch(value_str, i - 1) \notin Alpha)}) >= 2

(***************************************************************************)
(* Detection (lines 111-190).                                              *)
(***************************************************************************)
\* some field_name of the set is a key of the record with a truthy value
AnyTruthy(record_data, fields) ==
    \E field_name \in fields :
        Has(record_data, field_name) /\ Truthy(Get(record_data, field_name))

\* str(record_data.get(key, "")).strip()
GetStripped(record_data, key) ==
    IF Has(record_data, key) THEN Strip(ToStr(Get(record_data, key))) ELSE ""

\* the address text built by the loop over LOCATION_FIELDS
address_content(record_data) ==
    IF AnyTruthy(record_data, LOCATION_FIELDS)
    THEN ToStr(Get(record_data, "address")) \o " "
    ELSE ""

contains_complete_address(record_data) ==
    /\ Len(address_content(record_data)) > 0
    /\ \/ Len(GetStripped(record_data, "city")) > 0
       \/ Len(GetStripped(record_data, "state")) > 0
       \/ Len(GetStripped(record_data, "pin_code")) > 0
       \/ postal_code_pattern(address_content(record_data))

\* contains_individual_pii with the field names compared as they are spelled
contains_individual_pii_CaseSensitive(record_data) ==
    \/ \E i \in 1..Len(record_data) :
          /\ record_data[i].k \in PHONE_RELATED_FIELDS
          /\ decimal_ten_pattern(ToStr(record_data[i].v))
    \/ \E i \in 1..Len(record_data) :
          /\ record_data[i].k \in AADHAAR_RELATED_FIELDS
          /\ decimal_twelve_pattern(ToStr(record_data[i].v))
    \/ \E i \in 1..Len(record_data) :
          /\ record_data[i].k \in PASSPORT_RELATED_FIELDS
          /\ passport_pattern(ToStr(record_data[i].v))
    \/ \E i \in 1..Len(record_data) :
          /\ record_data[i].k \in UPI_RELATED_FIELDS
          /\ upi_pattern(ToStr(record_data[i].v))

contains_individual_pii(record_data) ==
    \/ \E i \in 1..Len(record_data) :
          /\ Lower(record_data[i].k) \in PHONE_RELATED_FIELDS
          /\ decimal_ten_pattern(ToStr(record_data[i].v))
    \/ \E i \in 1..Len(record_data) :
          /\ Lower(record_data[i].k) \in AADHAAR_RELATED_FIELDS
          /\ decimal_twelve_pattern(ToStr(record_data[i].v))
    \/ \E i \in 1..Len(record_data) :
          /\ Lower(record_data[i].k) \in PASSPORT_RELATED_FIELDS
          /\ passport_pattern(ToStr(record_data[i].v))
    \/ \E i \in 1..Len(record_data) :
          /\ Lower(record_data[i].k) \in UPI_RELATED_FIELDS
          /\ upi_pattern(ToStr(record_data[i].v))

has_complete_name(record_data) ==
    \/ /\ AnyTruthy(record_data, FULL_NAME_FIELDS)
       /\ appears_as_complete_name(ToStr(Get(record_data, "name")))
    \/ /\ Has(record_data, GIVEN_NAME_FIELD) /\ Has(record_data, SURNAME_FIELD)
       /\ Truthy(Get(record_data, GIVEN_NAME_FIELD))
       /\ Truthy(Get(record_data, SURNAME_FIELD))

has_email_address(record_data) ==
    \E field_name \in EMAIL_RELATED_FIELDS :
        /\ Has(record_data, field_name)
        /\ Truthy(Get(record_data, field_name))
        /\ email_pattern(ToStr(Get(record_data, field_name)))

has_device_id(record_data) == AnyTruthy(record_data, HARDWARE_ID_FIELDS)

\* has_user_context without the phone field names
has_user_context_NoPhone(record_data) ==
    has_complete_name(record_data) \/ has_email_address(record_data)

has_user_context(record_data) ==
    \/ has_complete_name(record_data)
    \/ has_email_address(record_data)
    \/ \E field_name \in PHONE_RELATED_FIELDS : Has(record_data, field_name)

has_ip_address(record_data) == AnyTruthy(record_data, NETWORK_IP_FIELDS)

\* element_count += 1
Bump(element_count, signal) == IF signal THEN element_count + 1 ELSE element_count

count_combinatorial_elements(record_data) ==
    LET c1 == Bump(0, has_complete_name(record_data))
        c2 == Bump(c1, has_email_address(record_data))
        c3 == Bump(c2, contains_complete_address(record_data))
        c4 == Bump(c3, has_device_id(record_data) /\ has_user_context(record_data))
        c5 == Bump(c4, has_ip_address(record_data) /\ has_user_context(record_data))
    IN  c5

(***************************************************************************)
(* Redaction (lines 192-252).  The result is [raised, rec, arg]: raised is *)
(* TRUE when the call ends in an exception instead of returning rec; arg   *)
(* is the caller's dict as the call leaves it.                             *)
(***************************************************************************)
\* StandaloneMask with the phone mask applied to any field that holds ten digits
StandaloneMask_NoKeyGate(field_key, field_value) ==
    IF field_value.t = "none" THEN field_value
    ELSE LET value_string == ToStr(field_value)
             field_key_lower == Lower(field_key)
         IN  IF SearchDigits(value_string, 10) # 0
             THEN PyStr(obfuscate_phone_number(value_string))
             ELSE IF field_key_lower \in AADHAAR_RELATED_FIELDS
                     /\ SearchDigits(value_string, 12) # 0
             THEN PyStr(obfuscate_aadhaar_number(value_string))
             ELSE IF field_key_lower \in PASSPORT_RELATED_FIELDS
                     /\ passport_pattern(value_string)
             THEN PyStr(obfuscate_passport_number(value_string))
             ELSE IF field_key_lower \in UPI_RELATED_FIELDS /\ upi_pattern(value_string)
             THEN PyStr(obfuscate_upi_identifier(value_string))
             ELSE field_value

\* StandaloneMask with the field name compared as it is spelled
StandaloneMask_CaseSensitive(field_key, field_value) ==
    IF field_value.t = "none" THEN field_value
    ELSE LET value_string == ToStr(field_value)
         IN  IF field_key \in PHONE_RELATED_FIELDS /\ SearchDigits(value_string, 10) # 0
             THEN PyStr(obfuscate_phone_number(value_string))
             ELSE IF field_key \in AADHAAR_RELATED_FIELDS
                     /\ SearchDigits(value_string, 12) # 0
             THEN PyStr(obfuscate_aadhaar_number(value_string))
             ELSE IF field_key \in PASSPORT_RELATED_FIELDS /\ passport_pattern(value_string)
             THEN PyStr(obfuscate_passport_number(value_string))
             ELSE IF field_key \in UPI_RELATED_FIELDS /\ upi_pattern(value_string)
             THEN PyStr(obfuscate_upi_identifier(value_string))
             ELSE field_value

\* the body of the loop of the unconditional pass, for one field
StandaloneMask(field_key, field_value) ==
    IF field_value.t = "none" THEN field_value
    ELSE LET value_string == ToStr(field_value)
             field_key_lower == Lower(field_key)
             v1 == IF field_key_lower \in PHONE_RELATED_FIELDS
                      /\ SearchDigits(value_string, 10) # 0
                   THEN PyStr(obfuscate_phone_number(value_string)) ELSE field_value
             v2 == IF field_key_lower \in AADHAAR_RELATED_FIELDS
                      /\ SearchDigits(value_string, 12) # 0
                   THEN PyStr(obfuscate_aadhaar_number(value_string)) ELSE v1
             v3 == IF field_key_lower \in PASSPORT_RELATED_FIELDS
                      /\ passport_pattern(value_string)
                   THEN PyStr(obfuscate_passport_number(value_string)) ELSE v2
             v4 == IF field_key_lower \in UPI_RELATED_FIELDS
                      /\ upi_pattern(value_string)
                   THEN PyStr(obfuscate_upi_identifier(value_string)) ELSE v3
         IN  v4

\* lines 196-215
UnconditionalPass(record_data) ==
    [i \in 1..Len(record_data) |->
        [k |-> record_data[i].k,
         v |-> StandaloneMask(record_data[i].k, record_data[i].v)]]

\* lines 221-225
RedactEmails(rec) ==
    [i \in 1..Len(rec) |->
        IF /\ rec[i].k \in EMAIL_RELATED_FIELDS
           /\ Truthy(rec[i].v)
           /\ email_pattern(ToStr(rec[i].v))
        THEN [k |-> rec[i].k, v |-> PyStr(obfuscate_email_address(ToStr(rec[i].v)))]
        ELSE rec[i]]

\* lines 228-230
RedactNames(rec) ==
    [i \in 1..Len(rec) |->
        IF /\ rec[i].k \in FULL_NAME_FIELDS
           /\ Truthy(rec[i].v)
           /\ appears_as_complete_name(ToStr(rec[i].v))
        THEN [k |-> rec[i].k, v |-> PyStr(obfuscate_personal_name(ToStr(rec[i].v)))]
        ELSE rec[i]]

\* the guard of line 233
HasNamePair(rec) ==
    /\ Has(rec, GIVEN_NAME_FIELD) /\ Has(rec, SURNAME_FIELD)
    /\ Truthy(Get(rec, GIVEN_NAME_FIELD)) /\ Truthy(Get(rec, SURNAME_FIELD))

\* value[0] of lines 234-235 is a TypeError unless the value is text
NamePairRaises(rec) ==
    HasNamePair(rec) /\ (Get(rec, GIVEN_NAME_FIELD).t # "str" \/ Get(rec, SURNAME_FIELD).t # "str")

\* value[0] + "X" * (len(str(value)) - 1)
MaskFirstChar(value) == PyStr(Ch(value.s, 1) \o Repeat("X", Len(ToStr(value)) - 1))

\* lines 233-235, when they do not raise
RedactNamePair(rec) ==
    IF HasNamePair(rec)
    THEN LET r1 == Put(rec, GIVEN_NAME_FIELD, MaskFirstChar(Get(rec, GIVEN_NAME_FIELD)))
         IN  Put(r1, SURNAME_FIELD, MaskFirstChar(Get(r1, SURNAME_FIELD)))
    ELSE rec

\* lines 238-240
RedactAddresses(rec) ==
    [i \in 1..Len(rec) |->
        IF rec[i].k \in LOCATION_FIELDS /\ Truthy(rec[i].v)
        THEN [k |-> rec[i].k, v |-> PyStr(obfuscate_physical_address(ToStr(rec[i].v)))]
        ELSE rec[i]]

\* lines 243-245
RedactNetwork(rec) ==
    [i \in 1..Len(rec) |->
        IF rec[i].k \in NETWORK_IP_FIELDS /\ Truthy(rec[i].v)
        THEN [k |-> rec[i].k, v |-> PyStr(obfuscate_ip_address(ToStr(rec[i].v)))]
        ELSE rec[i]]

\* lines 248-250
RedactDevices(rec) ==
    [i \in 1..Len(rec) |->
        IF rec[i].k \in HARDWARE_ID_FIELDS /\ Truthy(rec[i].v)
        THEN [k |-> rec[i].k, v |-> PyStr(obfuscate_device_identifier(ToStr(rec[i].v)))]
        ELSE rec[i]]

\* line 218 without the test of the score
RunsConditionalPass_IgnoresScore(record_data, is_sensitive_data) == is_sensitive_data

\* the condition of line 218
RunsConditionalPass(record_data, is_sensitive_data) ==
    is_sensitive_data /\ count_combinatorial_elements(record_data) >= 2

apply_redaction_rules(record_data, is_sensitive_data) ==
    \* line 194: the masks are written to a copy, record_data is only read
    LET redacted_record == UnconditionalPass(record_data)
    IN  IF ~RunsConditionalPass(record_data, is_sensitive_data)
        THEN [raised |-> FALSE, rec |-> redacted_record, arg |-> record_data]
        ELSE LET named == RedactNames(RedactEmails(redacted_record))
             IN  IF NamePairRaises(named)
                 THEN [raised |-> TRUE, rec |-> <<>>, arg |-> record_data]
                 ELSE [raised |-> FALSE,
                       rec |-> RedactDevices(RedactNetwork(RedactAddresses(
                                   RedactNamePair(named)))),
                       arg |-> record_data]

(***************************************************************************)
(* Inputs.  A row of the input file is [record_id, payload]; the payload   *)
(* column is absent, empty, text that json.loads rejects, the JSON text of *)
(* an object (rec, the dict it decodes to) or the JSON text of a value that*)
(* is not an object.                                                       *)
(***************************************************************************)
Field(key, value) == [k |-> key, v |-> value]

\* the fields the records of the model are made of
Catalogue ==
    << Field("phone", PyStr("9876543210")),
       Field("phone", PyStr("12345678901")),
       Field("phone", PyStr("n/a")),
       Field("Phone", PyStr("9876543210")),
       Field("contact", PyInt(1234567890)),
       Field("aadhar", PyStr("123456789012")),
       Field("passport", PyStr("A1234567")),
       Field("upi_id", PyStr("asha@ybl")),
       Field("email", PyStr("asha@mail.com")),
       Field("email", PyStr("a@b.co")),
       Field("email", PyNone),
       Field("Email", PyStr("asha@mail.com")),
       Field("name", PyStr("Asha Verma")),
       Field("name", PyStr("Asha")),
       Field("first_name", PyStr("Asha")),
       Field("first_name", PyInt(5)),
       Field("last_name", PyStr("Verma")),
       Field("last_name", PyStr("")),
       Field("address", PyStr("12 MG Road 560001")),
       Field("address", PyStr("ab")),
       Field("city", PyStr("Pune")),
       Field("ip", PyStr("10.0.0.1")),
       Field("ip", PyStr("1.2.3")),
       Field("device_id", PyStr("DEV1234567")),
       Field("device_id", PyStr("")),
       Field("note", PyStr("call 9876543210")) >>

RECURSIVE Picks(_)
\* the strictly increasing sequences of at most n positions of the Catalogue
Picks(n) ==
    IF n = 0 THEN {<<>>}
    ELSE LET P == Picks(n - 1)
         IN  P \cup UNION {
                 {Append(s, i) : i \in (IF Len(s) = 0 THEN 1 ELSE s[Len(s)] + 1)..Len(Catalogue)}
                 : s \in {q \in P : Len(q) = n - 1}}

Reverse(s) == [i \in 1..Len(s) |-> s[Len(s) + 1 - i]]

\* the dicts of the model: distinct keys, at most MaxFields fields, in two orders
Records ==
    LET Straight == {[j \in 1..Len(s) |-> Catalogue[s[j]]] : s \in Picks(MaxFields)}
        Dicts == {r \in Straight : Cardinality(Keys(r)) = Len(r)}
    IN  Dicts \cup {Reverse(r) : r \in Dicts}

Payload(kind, text, rec) == [kind |-> kind, text |-> text, rec |-> rec]

\* the payloads of the multi-row files
RowPayloads ==
    { Payload("absent", "", <<>>),
      Payload("empty", "", <<>>),
      Payload("malformed", "{bad", <<>>),
      Payload("nonobject", "[1]", <<>>),
      Payload("object", "", <<Field("phone", PyStr("9876543210"))>>),
      Payload("object", "", <<Field("first_name", PyStr("Asha")),
                              Field("last_name", PyInt(7)),
                              Field("email", PyStr("a@b.co"))>>) }

RECURSIVE Files(_)
\* the input files of at most n rows over RowPayloads
Files(n) ==
    IF n = 0 THEN {<<>>}
    ELSE LET F == Files(n - 1)
         IN  F \cup {Append(f, [record_id |-> id, payload |-> p]) :
                        f \in {g \in F : Len(g) = n - 1},
                        id \in {"r1", "r2"}, p \in RowPayloads}

Datasets ==
    {<<[record_id |-> "r1", payload |-> Payload("object", "", r)]>> : r \in Records}
        \cup Files(MaxRows)

(***************************************************************************)
(* execute_processing (lines 254-287): one action per way an iteration of  *)
(* the row loop ends.                                                      *)
(***************************************************************************)
\* json.dumps(redacted_data, ensure_ascii=False): the JSON text of the dict
json_dumps(rec) == [form |-> "json", text |-> "", rec |-> rec]

\* a cell written as it is
RawText(text) == [form |-> "text", text |-> text, rec |-> <<>>]

\* json.loads raises
DecodeFails(payload) == payload.kind = "malformed"

\* not json_data_string
PayloadMissing(payload) == payload.kind \in {"absent", "empty"}

\* line 278 without the combinatorial score
is_sensitive_record_StandaloneOnly(parsed_data) == contains_individual_pii(parsed_data)

\* line 278
is_sensitive_record(parsed_data) ==
    contains_individual_pii(parsed_data) \/ count_combinatorial_elements(parsed_data) >= 2

\* lines 130-132 and 119: a decoded value that is no dict ends in a TypeError or
\* an AttributeError; line 281 raises when apply_redaction_rules does
EngineRaises(payload) ==
    \/ payload.kind = "nonobject"
    \/ /\ payload.kind = "object"
       /\ apply_redaction_rules(payload.rec, is_sensitive_record(payload.rec)).raised

\* engine: what the last call of the engine (lines 278-281) did: the number of
\* calls so far, the row it was called for, the verdict and the score of line 278,
\* whether line 218 entered the conditional pass, whether the call raised, and
\* parsed_data as the call left it
NoEngineCall ==
    [calls |-> 0, row |-> 0, is_sensitive |-> FALSE, score |-> 0,
     conditional |-> FALSE, raised |-> FALSE, arg |-> <<>>]

Init ==
    /\ rows \in Datasets
    /\ idx = 0
    /\ output = <<>>
    /\ status = "running"
    /\ engine = NoEngineCall

Current == rows[idx + 1]

Reading == status = "running" /\ idx < Len(rows)

\* lines 265-268
WriteEmptyRow ==
    /\ Reading
    /\ PayloadMissing(Current.payload)
    /\ output' = Append(output, [record_id |-> Current.record_id,
                                 redacted_data_json |-> RawText("{}"),
                                 is_pii |-> FALSE])
    /\ idx' = idx + 1
    /\ UNCHANGED <<rows, status, engine>>

\* lines 270-275
WriteMalformedRow ==
    /\ Reading
    /\ ~PayloadMissing(Current.payload)
    /\ DecodeFails(Current.payload)
    /\ output' = Append(output, [record_id |-> Current.record_id,
                                 redacted_data_json |-> RawText(Current.payload.text),
                                 is_pii |-> FALSE])
    /\ idx' = idx + 1
    /\ UNCHANGED <<rows, status, engine>>

\* lines 277-287
WriteRedactedRow ==
    /\ Reading
    /\ ~PayloadMissing(Current.payload)
    /\ ~DecodeFails(Current.payload)
    /\ ~EngineRaises(Current.payload)
    /\ LET parsed_data == Current.payload.rec
           verdict == is_sensitive_record(parsed_data)
           result == apply_redaction_rules(parsed_data, verdict)
           redacted_data == result.rec
       IN  /\ output' = Append(output, [record_id |-> Current.record_id,
                                        redacted_data_json |-> json_dumps(redacted_data),
                                        is_pii |-> verdict])
           /\ engine' = [calls |-> engine.calls + 1,
                         row |-> idx + 1,
                         is_sensitive |-> verdict,
                         score |-> count_combinatorial_elements(parsed_data),
                         conditional |-> RunsConditionalPass(parsed_data, verdict),
                         raised |-> FALSE,
                         arg |-> result.arg]
    /\ idx' = idx + 1
    /\ UNCHANGED <<rows, status>>

\* an exception of lines 278-281 leaves the loop and the function
AbortOnException ==
    /\ Reading
    /\ ~PayloadMissing(Current.payload)
    /\ ~DecodeFails(Current.payload)
    /\ EngineRaises(Current.payload)
    /\ status' = "aborted"
    /\ engine' = IF Current.payload.kind = "object"
                  THEN [calls |-> engine.calls + 1,
                        row |-> idx + 1,
                        is_sensitive |-> is_sensitive_record(Current.payload.rec),
                        score |-> count_combinatorial_elements(Current.payload.rec),
                        conditional |-> TRUE,
                        raised |-> TRUE,
                        arg |-> Current.payload.rec]
                  ELSE [calls |-> engine.calls + 1,
                        row |-> idx + 1,
                        is_sensitive |-> FALSE,
                        score |-> 0,
                        conditional |-> FALSE,
                        raised |-> TRUE,
                        arg |-> <<>>]
    /\ UNCHANGED <<rows, idx, output>>

\* the reader is exhausted and the files are closed
Finish ==
    /\ status = "running"
    /\ idx = Len(rows)
    /\ status' = "done"
    /\ UNCHANGED <<rows, idx, output, engine>>

Next ==
    \/ WriteEmptyRow
    \/ WriteMalformedRow
    \/ WriteRedactedRow
    \/ AbortOnException
    \/ Finish

Spec == Init /\ [][Next]_vars

(***************************************************************************)
(* Properties.  The last call of the engine that returned was made for the *)
(* record InRec of row engine.row and wrote the row OutRow.                *)
(***************************************************************************)
Called == engine.calls > 0 /\ ~engine.raised

InRec == rows[engine.row].payload.rec

OutRow == output[engine.row]

OutRec == OutRow.redacted_data_json.rec

\* the field is in a standalone category and its text matches the category's pattern
FieldIsStandalone(f) ==
    LET n == Lower(f.k)
        s == ToStr(f.v)
    IN  \/ n \in {"phone", "contact", "alt_phone", "mobile"} /\ decimal_ten_pattern(s)
        \/ n \in {"aadhar", "aadhaar"} /\ decimal_twelve_pattern(s)
        \/ n = "passport" /\ passport_pattern(s)
        \/ n \in {"upi", "upi_id"} /\ upi_pattern(s)

\* the category's masked form of the text of a standalone field
StandaloneMaskedForm(f) ==
    LET n == Lower(f.k)
        s == ToStr(f.v)
    IN  CASE n \in {"phone", "contact", "alt_phone", "mobile"} -> obfuscate_phone_number(s)
          [] n \in {"aadhar", "aadhaar"} -> obfuscate_aadhaar_number(s)
          [] n = "passport" -> obfuscate_passport_number(s)
          [] n \in {"upi", "upi_id"} -> obfuscate_upi_identifier(s)

\* the names the conditional pass looks up
QuasiKeys ==
    {"email", "alt_email", "username", "name", "first_name", "last_name",
     "address", "ip", "ip_address", "device_id"}

\* C1: the verdict written for a parsed record is exactly (some field of a
\* standalone category matches its pattern) or (combinatorial score >= 2).
C1_VerdictIsStandaloneOrScore ==
    Called =>
        OutRow.is_pii = ( \/ \E j \in 1..Len(InRec) : FieldIsStandalone(InRec[j])
                          \/ count_combinatorial_elements(InRec) >= 2 )

\* C1 witness: a record flagged by a standalone identifier alone
C1_Witness ==
    /\ Called
    /\ OutRow.is_pii
    /\ count_combinatorial_elements(InRec) < 2
    /\ \E j \in 1..Len(InRec) : FieldIsStandalone(InRec[j]) /\ InRec[j].k # Lower(InRec[j].k)

\* C2: for either value of is_pii, every field of a standalone category whose
\* text matches the category's detection pattern holds the category's masked
\* form, not the original value, in the redacted record.
C2_StandaloneAlwaysMasked ==
    Called =>
        \A j \in 1..Len(InRec) :
            FieldIsStandalone(InRec[j]) =>
                /\ OutRec[j].v = PyStr(StandaloneMaskedForm(InRec[j]))
                /\ OutRec[j].v # InRec[j].v
                /\ \A b \in BOOLEAN :
                      LET a == apply_redaction_rules(InRec, b)
                      IN  ~a.raised => a.rec[j].v = OutRec[j].v

\* C2 witness: a standalone field masked in a record whose score is below 2
C2_Witness ==
    /\ Called
    /\ count_combinatorial_elements(InRec) < 2
    /\ \E j \in 1..Len(InRec) :
          /\ FieldIsStandalone(InRec[j])
          /\ OutRec[j].v # InRec[j].v
          /\ apply_redaction_rules(InRec, FALSE).rec[j].v = OutRec[j].v

\* C3: the conditional pass runs exactly when the verdict is true and the score
\* of the unmasked record is >= 2; with a score below 2 every quasi-identifier
\* field is left as it was, and when the pass runs every non-empty address, IP
\* and device-id field is masked; the unconditional pass does not change the score.
C3_ConditionalPassGate ==
    Called =>
        /\ engine.conditional = (OutRow.is_pii /\ count_combinatorial_elements(InRec) >= 2)
        /\ engine.score = count_combinatorial_elements(InRec)
        /\ count_combinatorial_elements(UnconditionalPass(InRec)) = engine.score
        /\ count_combinatorial_elements(InRec) < 2 =>
              \A j \in 1..Len(InRec) : InRec[j].k \in QuasiKeys => OutRec[j] = InRec[j]
        /\ engine.conditional =>
              \A j \in 1..Len(InRec) :
                  Truthy(InRec[j].v) =>
                      /\ InRec[j].k = "address" =>
                            OutRec[j].v = PyStr(obfuscate_physical_address(ToStr(InRec[j].v)))
                      /\ InRec[j].k \in {"ip", "ip_address"} =>
                            OutRec[j].v = PyStr(obfuscate_ip_address(ToStr(InRec[j].v)))
                      /\ InRec[j].k = "device_id" =>
                            OutRec[j].v = PyStr(obfuscate_device_identifier(ToStr(InRec[j].v)))

\* C3 witness: verdict true by a standalone identifier, exactly one signal, and a
\* quasi-identifier field that the conditional pass would have masked
C3_Witness ==
    /\ Called
    /\ OutRow.is_pii
    /\ count_combinatorial_elements(InRec) = 1
    /\ ~engine.conditional
    /\ \E j \in 1..Len(InRec) :
          /\ InRec[j].k = "name"
          /\ appears_as_complete_name(ToStr(InRec[j].v))
          /\ OutRec[j] = InRec[j]

\* C4: apply_redaction_rules never raises for a record whose values are text,
\* numbers or null.
C4_RedactionNeverRaises ==
    ~(/\ engine.calls > 0
      /\ engine.raised
      /\ rows[engine.row].payload.kind = "object")

\* the code matches the name: lowercased for the standalone categories, as it is
\* spelled for the others
Recognized(key) ==
    \/ Lower(key) \in {"phone", "contact", "alt_phone", "mobile", "aadhar", "aadhaar",
                       "passport", "upi", "upi_id"}
    \/ key \in QuasiKeys

\* the redacted record has the fields of the input in the same order and the
\* values of the unrecognized fields
SameShape(inrec, outrec) ==
    /\ Len(outrec) = Len(inrec)
    /\ \A j \in 1..Len(inrec) :
          /\ outrec[j].k = inrec[j].k
          /\ ~Recognized(inrec[j].k) => outrec[j].v = inrec[j].v

\* C5: for either value of is_pii the redacted record has the field names of the
\* input in the same order, the input dict is not modified, every unrecognized
\* field keeps its value, and a record with no recognized field comes back
\* identical with verdict false.
C5_FramePreserved ==
    Called =>
        /\ SameShape(InRec, OutRec)
        /\ engine.arg = InRec
        /\ \A b \in BOOLEAN :
              LET a == apply_redaction_rules(InRec, b)
              IN  ~a.raised => SameShape(InRec, a.rec) /\ a.arg = InRec
        /\ (\A j \in 1..Len(InRec) : ~Recognized(InRec[j].k)) =>
              OutRec = InRec /\ ~OutRow.is_pii

\* C5 witness: an unrecognized field that holds ten digits is kept while another
\* field of the same record is masked
C5_Witness ==
    /\ Called
    /\ \E j \in 1..Len(InRec) :
          /\ ~Recognized(InRec[j].k)
          /\ SearchDigits(ToStr(InRec[j].v), 10) # 0
          /\ OutRec[j] = InRec[j]
    /\ \E j \in 1..Len(InRec) : OutRec[j].v # InRec[j].v

\* C6: one output row per input row, in order, with the row's identifier; a
\* missing payload gives "{}" and a malformed one the raw text, both with verdict
\* false; and no payload stops the rows that follow from being processed.
C6_EveryRowWritten ==
    /\ status # "aborted"
    /\ status = "done" =>
          /\ Len(output) = Len(rows)
          /\ \A i \in 1..Len(rows) :
                /\ output[i].record_id = rows[i].record_id
                /\ rows[i].payload.kind \in {"absent", "empty"} =>
                      /\ output[i].redacted_data_json = RawText("{}")
                      /\ ~output[i].is_pii
                /\ rows[i].payload.kind = "malformed" =>
                      /\ output[i].redacted_data_json = RawText(rows[i].payload.text)
                      /\ ~output[i].is_pii

B(signal) == IF signal THEN 1 ELSE 0

\* user context: the full-name signal, the email signal, or a phone field name
\* among the keys
UserContext(rec) ==
    \/ has_complete_name(rec)
    \/ has_email_address(rec)
    \/ Keys(rec) \cap {"phone", "contact", "alt_phone", "mobile"} # {}

\* C7 as stated: the device-id and the network-address signals count 1 exactly
\* when such a field is present and user context holds.
C7_PresenceWithContext ==
    Called =>
        engine.score =
            B(has_complete_name(InRec)) + B(has_email_address(InRec))
            + B(contains_complete_address(InRec))
            + B(Has(InRec, "device_id") /\ UserContext(InRec))
            + B((Has(InRec, "ip") \/ Has(InRec, "ip_address")) /\ UserContext(InRec))

\* a key of the set is present with a value that is not empty, zero or null
PresentNonEmpty(rec, keys) ==
    \E j \in 1..Len(rec) : rec[j].k \in keys /\ Truthy(rec[j].v)

\* C7 amended: the device-id and the network-address signals count 1 exactly
\* when such a field is present with a non-empty value and user context holds;
\* each of the five signals adds exactly 1 and the score is in 0..5.
C7_NonEmptyWithContext ==
    Called =>
        /\ engine.score =
              B(has_complete_name(InRec)) + B(has_email_address(InRec))
              + B(contains_complete_address(InRec))
              + B(PresentNonEmpty(InRec, {"device_id"}) /\ UserContext(InRec))
              + B(PresentNonEmpty(InRec, {"ip", "ip_address"}) /\ UserContext(InRec))
        /\ engine.score \in 0..5

\* C7 witness: a device id counted because a phone field name is a key, with no
\* name and no email signal
C7_Witness ==
    /\ Called
    /\ PresentNonEmpty(InRec, {"device_id"})
    /\ ~has_complete_name(InRec) /\ ~has_email_address(InRec)
    /\ ~contains_complete_address(InRec) /\ ~PresentNonEmpty(InRec, {"ip", "ip_address"})
    /\ \E j \in 1..Len(InRec) : InRec[j].k = "phone" /\ ~FieldIsStandalone(InRec[j])
    /\ engine.score = 1

\* str.upper() of one character
UpperChar(c) ==
    IF c \in Alpha \ Upper
    THEN Ch(UpperAlphabet, CHOOSE i \in 1..26 : Ch(LowerAlphabet, i) = c)
    ELSE c

\* the name with its first letter in upper case
Capitalize(key) == UpperChar(Ch(key, 1)) \o SubSeq(key, 2, Len(key))

\* the record with the name of field j capitalized
Recase(rec, j) ==
    [i \in 1..Len(rec) |-> IF i = j THEN Field(Capitalize(rec[i].k), rec[i].v) ELSE rec[i]]

\* field j is spelled in lower case and its capitalized spelling is a new key
CanRecase(rec, j) ==
    /\ rec[j].k = Lower(rec[j].k)
    /\ Capitalize(rec[j].k) # rec[j].k
    /\ ~Has(rec, Capitalize(rec[j].k))

\* the record without field j
Without(rec, j) == [i \in 1..(Len(rec) - 1) |-> IF i < j THEN rec[i] ELSE rec[i + 1]]

StandaloneNames ==
    {"phone", "contact", "alt_phone", "mobile", "aadhar", "aadhaar", "passport",
     "upi", "upi_id"}

CaseInsensitiveNames ==
    StandaloneNames \cup {"email", "alt_email", "username", "address", "ip", "ip_address",
                          "device_id"}

\* C8 as stated: two records that differ only in the letter case of the name of
\* an email, address, network-address, device-id, phone, national-ID, passport or
\* payment-handle field get the same score, verdict and masking of that field.
C8_CaseInsensitiveExceptNames ==
    Called =>
        \A j \in 1..Len(InRec) :
            (CanRecase(InRec, j) /\ InRec[j].k \in CaseInsensitiveNames) =>
                LET other == Recase(InRec, j)
                    a == apply_redaction_rules(other, is_sensitive_record(other))
                IN  /\ count_combinatorial_elements(other) = engine.score
                    /\ is_sensitive_record(other) = OutRow.is_pii
                    /\ ~a.raised => a.rec[j].v = OutRec[j].v

\* C8 amended: the letter case of a field name is ignored only by the standalone
\* detector and the unconditional pass (phone, national ID, passport, payment
\* handle): recasing such a name changes neither the detector's result nor the
\* masking of that field.  Every other lookup takes the lowercase spelling only:
\* an email, name, address, network-address or device-id field spelled otherwise
\* is never masked and adds nothing to the score.
C8_CaseInsensitiveStandaloneOnly ==
    Called =>
        \A j \in 1..Len(InRec) :
            /\ (CanRecase(InRec, j) /\ InRec[j].k \in StandaloneNames) =>
                  LET other == Recase(InRec, j)
                  IN  /\ contains_individual_pii(other) = contains_individual_pii(InRec)
                      /\ \A b \in BOOLEAN :
                            LET a == apply_redaction_rules(other, b)
                                c == apply_redaction_rules(InRec, b)
                            IN  (~a.raised /\ ~c.raised) => a.rec[j].v = c.rec[j].v
            /\ (InRec[j].k # Lower(InRec[j].k) /\ Lower(InRec[j].k) \in QuasiKeys) =>
                  /\ OutRec[j] = InRec[j]
                  /\ engine.score = count_combinatorial_elements(Without(InRec, j))

\* C8 witness: a matching phone field whose capitalized spelling is detected and
\* masked like the lowercase one
C8_Witness ==
    /\ Called
    /\ \E j \in 1..Len(InRec) :
          /\ CanRecase(InRec, j)
          /\ InRec[j].k = "phone"
          /\ FieldIsStandalone(InRec[j])
          /\ contains_individual_pii(Recase(InRec, j))
          /\ apply_redaction_rules(Recase(InRec, j), TRUE).rec[j].v = OutRec[j].v
          /\ OutRec[j].v # InRec[j].v

\* ", " and the leftmost postal code of the text, "" when it has none
PostalSuffix(text) ==
    LET p == postal_code_search(text)
    IN  IF p = 0 THEN "" ELSE ", " \o SubSeq(text, p, p + 5)

\* C9 as stated: a masked address is the first 3 characters of the text, or all
\* of them when it is shorter, then "XXX" and "...", then the postal code if any.
C9_AddressKeepsShortText ==
    (Called /\ engine.conditional) =>
        \A j \in 1..Len(InRec) :
            (InRec[j].k = "address" /\ Truthy(InRec[j].v)) =>
                LET text == ToStr(InRec[j].v)
                IN  OutRec[j].v = PyStr(Prefix(text, 3) \o "XXX" \o "..." \o PostalSuffix(text))

\* C9 amended: a masked address of 3 or more characters is its first 3
\* characters, "XXX" and "..."; a shorter one is "XXX" and "..." with none of its
\* characters; a 6-digit postal code of the text follows verbatim after ", ".
C9_AddressMask ==
    (Called /\ engine.conditional) =>
        \A j \in 1..Len(InRec) :
            (InRec[j].k = "address" /\ Truthy(InRec[j].v)) =>
                LET text == ToStr(InRec[j].v)
                    kept == IF Len(text) >= 3 THEN SubSeq(text, 1, 3) ELSE ""
                IN  OutRec[j].v = PyStr(kept \o "XXX" \o "..." \o PostalSuffix(text))

\* C9 witness: a masked address that ends with the postal code of the text
C9_Witness ==
    /\ Called
    /\ engine.conditional
    /\ \E j \in 1..Len(InRec) :
          /\ InRec[j].k = "address"
          /\ postal_code_pattern(ToStr(InRec[j].v))
          /\ Suffix(OutRec[j].v.s, 8) = ", 560001"
          /\ Prefix(OutRec[j].v.s, 9) = "12 XXX..."

\* C10: a redacted record that differs from the input is reported as PII.
C10_ChangedImpliesFlagged ==
    Called => (OutRec # InRec => OutRow.is_pii)

====
